---- MODULE Spec2Model ----
(***************************************************************************)
(* Model of libyul/optimiser/Suite.cpp: the optimiser suite of the Yul     *)
(* compiler backend.  OptimiserSuite::run (the orchestrator),              *)
(* OptimiserSuite::runSequence(string) (the schedule interpreter),         *)
(* OptimiserSuite::runSequence(vector<string>) (a plain run) and           *)
(* OptimiserSuite::runSequenceUntilStable (the stability loop).            *)
(*                                                                         *)
(* The individual optimiser steps, the Disambiguator, the StackCompressor, *)
(* the ConstantOptimiser, the VarNameCleaner and the AsmAnalyzer are       *)
(* external collaborators: each may rewrite the tree arbitrarily.          *)
(***************************************************************************)
EXTENDS Naturals, Sequences, FiniteSets

\* ------------------------------------------------------------------ bounds

\* Longest schedule string enumerated exhaustively.
MaxLen == 3
\* Largest round budget of the stability loop that is explored.  It stands for
\* the default of the maxRounds parameter where runSequence(string) calls
\* runSequenceUntilStable without giving one.
MaxRounds == 2

\* ------------------------------------------------------------ the registry

\* OptimiserSuite::allSteps: the names of the registered steps.
allSteps ==
    { "BlockFlattener", "CircularReferencesPruner", "CommonSubexpressionEliminator",
      "ConditionalSimplifier", "ConditionalUnsimplifier", "ControlFlowSimplifier",
      "DeadCodeEliminator", "EquivalentFunctionCombiner", "ExpressionInliner",
      "ExpressionJoiner", "ExpressionSimplifier", "ExpressionSplitter",
      "ForLoopConditionIntoBody", "ForLoopConditionOutOfBody", "ForLoopInitRewriter",
      "FullInliner", "FunctionGrouper", "FunctionHoister", "LiteralRematerialiser",
      "LoadResolver", "LoopInvariantCodeMotion", "RedundantAssignEliminator",
      "Rematerialiser", "SSAReverser", "SSATransform", "StructuralSimplifier",
      "UnusedPruner", "VarDeclInitializer" }

\* stepNameToAbbreviationMap with VarDeclInitializer given the letter of
\* DeadCodeEliminator: two names share an abbreviation.
stepNameToAbbreviationMapColliding ==
    { <<"BlockFlattener",                "f">>,
      <<"CircularReferencesPruner",      "l">>,
      <<"CommonSubexpressionEliminator", "c">>,
      <<"ConditionalSimplifier",         "C">>,
      <<"ConditionalUnsimplifier",       "U">>,
      <<"ControlFlowSimplifier",         "n">>,
      <<"DeadCodeEliminator",            "D">>,
      <<"EquivalentFunctionCombiner",    "v">>,
      <<"ExpressionInliner",             "e">>,
      <<"ExpressionJoiner",              "j">>,
      <<"ExpressionSimplifier",          "s">>,
      <<"ExpressionSplitter",            "x">>,
      <<"ForLoopConditionIntoBody",      "I">>,
      <<"ForLoopConditionOutOfBody",     "O">>,
      <<"ForLoopInitRewriter",           "o">>,
      <<"FullInliner",                   "i">>,
      <<"FunctionGrouper",               "g">>,
      <<"FunctionHoister",               "h">>,
      <<"LiteralRematerialiser",         "T">>,
      <<"LoadResolver",                  "L">>,
      <<"LoopInvariantCodeMotion",       "M">>,
      <<"RedundantAssignEliminator",     "r">>,
      <<"Rematerialiser",                "m">>,
      <<"SSAReverser",                   "V">>,
      <<"SSATransform",                  "a">>,
      <<"StructuralSimplifier",          "t">>,
      <<"UnusedPruner",                  "u">>,
      <<"VarDeclInitializer",            "D">> }

\* OptimiserSuite::stepNameToAbbreviationMap: the lookup table, as the set of
\* its (name, abbreviation) entries.
stepNameToAbbreviationMap ==
    { <<"BlockFlattener",                "f">>,
      <<"CircularReferencesPruner",      "l">>,
      <<"CommonSubexpressionEliminator", "c">>,
      <<"ConditionalSimplifier",         "C">>,
      <<"ConditionalUnsimplifier",       "U">>,
      <<"ControlFlowSimplifier",         "n">>,
      <<"DeadCodeEliminator",            "D">>,
      <<"EquivalentFunctionCombiner",    "v">>,
      <<"ExpressionInliner",             "e">>,
      <<"ExpressionJoiner",              "j">>,
      <<"ExpressionSimplifier",          "s">>,
      <<"ExpressionSplitter",            "x">>,
      <<"ForLoopConditionIntoBody",      "I">>,
      <<"ForLoopConditionOutOfBody",     "O">>,
      <<"ForLoopInitRewriter",           "o">>,
      <<"FullInliner",                   "i">>,
      <<"FunctionGrouper",               "g">>,
      <<"FunctionHoister",               "h">>,
      <<"LiteralRematerialiser",         "T">>,
      <<"LoadResolver",                  "L">>,
      <<"LoopInvariantCodeMotion",       "M">>,
      <<"RedundantAssignEliminator",     "r">>,
      <<"Rematerialiser",                "m">>,
      <<"SSAReverser",                   "V">>,
      <<"SSATransform",                  "a">>,
      <<"StructuralSimplifier",          "t">>,
      <<"UnusedPruner",                  "u">>,
      <<"VarDeclInitializer",            "d">> }

\* The keys of OptimiserSuite::stepAbbreviationToNameMap (util::invertMap of
\* the table above): the characters that find() resolves.
knownAbbreviations == { e[2] : e \in stepNameToAbbreviationMap }

\* stepAbbreviationToNameMap().find(abbreviation)->second
stepAbbreviationToNameMap(abbreviation) ==
    CHOOSE name \in { e[1] : e \in stepNameToAbbreviationMap } :
        <<name, abbreviation>> \in stepNameToAbbreviationMap

\* ---------------------------------------------------------------- the tree

\* A top-level statement of the tree, by its shape: an empty nested block, a
\* nested block with statements, or any statement that is not a block.
StatementKinds == { "EmptyBlock", "Block", "Other" }

RECURSIVE SeqsUpTo(_, _)
\* All sequences over S of length at most n.
SeqsUpTo(S, n) ==
    IF n = 0 THEN { <<>> }
    ELSE LET shorter == SeqsUpTo(S, n - 1)
         IN  shorter \cup { Append(s, x) : s \in shorter, x \in S }

\* Block::statements of the trees that are explored: with no statement, with
\* one, two and three statements, led by an empty block, by a block that is
\* not empty, and by a statement that is not a block.
Trees ==
    { <<>>,
      << "EmptyBlock" >>,
      << "Block" >>,
      << "EmptyBlock", "Other" >>,
      << "Block", "Other" >>,
      << "Other", "Block" >>,
      << "EmptyBlock", "Other", "Other" >> }

RECURSIVE codeSizeIncludingFunctions(_)
\* CodeSize::codeSizeIncludingFunctions: the convergence metric, an unsigned
\* integer computed from the tree.  An empty block costs nothing.
codeSizeIncludingFunctions(tree) ==
    IF tree = <<>> THEN 0
    ELSE (IF Head(tree) = "EmptyBlock" THEN 0 ELSE 1)
         + codeSizeIncludingFunctions(Tail(tree))

\* ------------------------------------------------------------------- state

VARIABLES
    opc,          \* the statement of the caller that is executing
    ast,          \* the tree (Block& _ast): its top-level statements
    m_context,    \* OptimiserSuite::m_context, handed to every step
    m_debug,      \* OptimiserSuite::m_debug
    text,         \* runSequence(string): _stepAbbreviations
    pos,          \* runSequence(string): index of the character looked at
    insideLoop,   \* runSequence(string): insideLoop
    steps,        \* runSequence(string): steps; the _steps of the callees
    spc,          \* where control is inside the interpreter
    idx,          \* runSequence(vector): index of the step to run next
    copy,         \* runSequence(vector): the snapshot kept for PrintChanges
    rounds,       \* runSequenceUntilStable: rounds
    codeSize,     \* runSequenceUntilStable: codeSize
    maxRounds,    \* runSequenceUntilStable: maxRounds
    exc,          \* the exception that left the call, or NoExc
    log,          \* history: the steps invoked through allSteps().at(step)->run
    elog,         \* history: the plain runs and stability loops that returned
    measured,     \* history: newSize of each round of the stability loop running
    dialect,      \* run: the dynamic type of _dialect
    meter,        \* run: whether _meter is non-null
    custom,       \* run: _customOptimisationSequence
    compressed,   \* history: the call of StackCompressor::run and what it returned
    phases        \* history: the statements of run that completed

\* The arguments of OptimiserSuite::run and its history.
runVars == << dialect, meter, custom, compressed, phases >>

vars == << opc, ast, m_debug, text, pos, insideLoop, steps, spc, idx, copy,
           rounds, codeSize, maxRounds, exc, log, elog, measured, runVars,
           m_context >>

NoExc == [class |-> "none", what |-> ""]
NoCopy == << "null" >>

\* assertThrow(false, OptimizerException, what)
OptimizerException(what) == [class |-> "OptimizerException", what |-> what]

\* yulAssert(false, what)
YulAssertion(what) == [class |-> "YulAssertion", what |-> what]

\* optional<string>: no value, or a value
nullopt == [has_value |-> FALSE, value |-> <<>>]
optional(string) == [has_value |-> TRUE, value |-> string]

DebugModes == { "None", "PrintStep", "PrintChanges" }

\* OptimiserStepContext: what a step can change in it is the name dispenser,
\* which is as constructed or has handed out names.
Contexts == { "constructed", "advanced" }

\* SyntacticallyEqual{}.statementEqual(_ast, *copy)
statementEqual(tree, snapshot) == tree = snapshot

\* The states of spc in which control is inside runSequence(vector): called for
\* the steps before a '(' (line 276), from the stability loop (line 339), and
\* for the steps left at the end of the string (line 297).
RunStates == { "run", "looprun", "tailrun" }

\* ------------------------------------------ runSequence(vector<string>)

\* Entry of runSequence(vector): the snapshot is taken only for PrintChanges.
EnterRun(state) ==
    /\ spc' = state
    /\ idx' = 1
    /\ copy' = IF m_debug = "PrintChanges" THEN ast ELSE NoCopy

\* RunStep with the refresh of line 319 turned round: when the step changed
\* the tree, the snapshot is assigned to the tree.
RunStepWritesBack ==
    /\ spc \in RunStates
    /\ idx <= Len(steps)
    /\ IF steps[idx] \in allSteps
       THEN \E t \in Trees, c \in { m_context, "advanced" } :
              /\ ast' = IF m_debug = "PrintChanges" /\ ~statementEqual(t, copy)
                        THEN copy ELSE t
              /\ m_context' = c
              /\ UNCHANGED copy
              /\ log' = Append(log, steps[idx])
              /\ idx' = idx + 1
              /\ UNCHANGED << spc, exc >>
       ELSE /\ exc' = [class |-> "std::out_of_range", what |-> steps[idx]]
            /\ spc' = "thrown"
            /\ UNCHANGED << ast, m_context, copy, log, idx >>
    /\ UNCHANGED << opc, m_debug, text, pos, insideLoop, steps, rounds, codeSize,
                    maxRounds, elog, measured, runVars >>

\* One iteration of the for loop: allSteps().at(step)->run(m_context, _ast),
\* and for PrintChanges the comparison with the snapshot and its refresh.
RunStep ==
    /\ spc \in RunStates
    /\ idx <= Len(steps)
    /\ IF steps[idx] \in allSteps
       THEN \E t \in Trees, c \in { m_context, "advanced" } :
              /\ ast' = t
              /\ m_context' = c
              /\ copy' = IF m_debug = "PrintChanges" /\ ~statementEqual(t, copy)
                         THEN t ELSE copy
              /\ log' = Append(log, steps[idx])
              /\ idx' = idx + 1
              /\ UNCHANGED << spc, exc >>
       ELSE /\ exc' = [class |-> "std::out_of_range", what |-> steps[idx]]
            /\ spc' = "thrown"
            /\ UNCHANGED << ast, m_context, copy, log, idx >>
    /\ UNCHANGED << opc, m_debug, text, pos, insideLoop, steps, rounds, codeSize,
                    maxRounds, elog, measured, runVars >>

\* The for loop is over: runSequence(vector) returns to its caller.
RunReturn ==
    /\ spc \in RunStates
    /\ idx > Len(steps)
    /\ copy' = NoCopy
    /\ CASE spc = "run" ->
              \* line 277: steps.clear(), then the next character
              /\ elog' = Append(elog, [loop |-> FALSE, steps |-> steps, rounds |-> 1])
              /\ steps' = <<>>
              /\ pos' = pos + 1
              /\ spc' = "scan"
              /\ UNCHANGED rounds
         [] spc = "looprun" ->
              \* line 332: ++rounds
              /\ rounds' = rounds + 1
              /\ spc' = "loop"
              /\ UNCHANGED << elog, steps, pos >>
         [] spc = "tailrun" ->
              \* line 298: runSequence(string) returns
              /\ elog' = Append(elog, [loop |-> FALSE, steps |-> steps, rounds |-> 1])
              /\ spc' = "ret"
              /\ UNCHANGED << steps, pos, rounds >>
    /\ UNCHANGED << m_context, opc, ast, m_debug, text, insideLoop, idx, codeSize, maxRounds,
                    exc, log, measured, runVars >>

\* ------------------------------------------------ runSequenceUntilStable

\* The value codeSize holds before the first round (line 331).
InitialCodeSize == 0

\* Entry of runSequenceUntilStable: size_t codeSize = 0; rounds = 0.
EnterStable ==
    /\ spc' = "loop"
    /\ rounds' = 0
    /\ codeSize' = InitialCodeSize
    /\ measured' = <<>>

\* runSequenceUntilStable returns: to the caller of the model when it was
\* called directly, else to line 288 of runSequence(string).
StableReturn ==
    /\ elog' = Append(elog, [loop |-> TRUE, steps |-> steps, rounds |-> rounds])
    /\ IF opc = "runSequenceUntilStable"
       THEN /\ spc' = "ret"
            /\ UNCHANGED << steps, pos >>
       ELSE /\ steps' = <<>>
            /\ pos' = pos + 1
            /\ spc' = "scan"

\* rounds < maxRounds and the metric differs from codeSize: remember it and
\* run the steps once more (lines 334-339).
StableRound ==
    /\ spc = "loop"
    /\ rounds < maxRounds
    /\ LET newSize == codeSizeIncludingFunctions(ast)
       IN  /\ newSize # codeSize
           /\ codeSize' = newSize
           /\ measured' = Append(measured, newSize)
    /\ EnterRun("looprun")
    /\ UNCHANGED << m_context, opc, ast, m_debug, text, pos, insideLoop, steps, rounds,
                    maxRounds, exc, log, elog, runVars >>

\* StableBreak with the test of line 335 made "not smaller" after the first
\* round: the loop also stops when the metric has grown.
StableBreakNotSmaller ==
    /\ spc = "loop"
    /\ rounds < maxRounds
    /\ LET newSize == codeSizeIncludingFunctions(ast)
       IN  /\ newSize = codeSize \/ (rounds > 0 /\ newSize > codeSize)
           /\ measured' = Append(measured, newSize)
    /\ StableReturn
    /\ UNCHANGED << m_context, opc, ast, m_debug, text, insideLoop, idx, copy, rounds,
                    codeSize, maxRounds, exc, log, runVars >>

\* rounds < maxRounds and the metric equals codeSize: break (lines 335-336).
StableBreak ==
    /\ spc = "loop"
    /\ rounds < maxRounds
    /\ LET newSize == codeSizeIncludingFunctions(ast)
       IN  /\ newSize = codeSize
           /\ measured' = Append(measured, newSize)
    /\ StableReturn
    /\ UNCHANGED << m_context, opc, ast, m_debug, text, insideLoop, idx, copy, rounds,
                    codeSize, maxRounds, exc, log, runVars >>

\* rounds = maxRounds: the loop condition fails and the function returns.
StableExhausted ==
    /\ spc = "loop"
    /\ ~(rounds < maxRounds)
    /\ StableReturn
    /\ UNCHANGED measured
    /\ UNCHANGED << m_context, opc, ast, m_debug, text, insideLoop, idx, copy, rounds,
                    codeSize, maxRounds, exc, log, runVars >>

\* ------------------------------------------------- runSequence(string)

\* assertThrow(false, OptimizerException, what) inside runSequence(string)
Throw(what) ==
    /\ exc' = OptimizerException(what)
    /\ spc' = "thrown"

\* yulAssert(lookupTable.size() == allSteps().size(), "") (line 244), made the
\* first time stepNameToAbbreviationMap() builds its table.
lookupTableAssertion ==
    Cardinality(stepNameToAbbreviationMap) = Cardinality(allSteps)

\* Lines 263-264: the character is a key of stepAbbreviationToNameMap.
PushStep(abbreviation) ==
    /\ steps' = Append(steps, stepAbbreviationToNameMap(abbreviation))
    /\ pos' = pos + 1
    /\ UNCHANGED << insideLoop, spc, idx, copy, rounds, codeSize, measured, exc >>

\* SkipSpace without lines 265-268: a space or a newline falls through to the
\* last branch and is rejected like any other character.
SkipSpaceRejected ==
    /\ Throw("Invalid optimisation step abbreviation")
    /\ UNCHANGED << pos, insideLoop, steps, idx, copy, rounds, codeSize, measured >>

\* Lines 265-268: a space or a newline is skipped.
SkipSpace ==
    /\ pos' = pos + 1
    /\ UNCHANGED << insideLoop, steps, spc, idx, copy, rounds, codeSize, measured,
                    exc >>

\* OpenLoop without lines 274-278: the steps collected before '(' are not run
\* and stay in the list.
OpenLoopMerging ==
    /\ IF insideLoop
       THEN /\ Throw("Nested parentheses not supported")
            /\ UNCHANGED << insideLoop, pos >>
       ELSE /\ insideLoop' = TRUE
            /\ pos' = pos + 1
            /\ UNCHANGED << spc, exc >>
    /\ UNCHANGED << steps, idx, copy, rounds, codeSize, measured >>

\* Lines 269-279, '(': the steps collected so far are run once.
OpenLoop ==
    /\ IF insideLoop
       THEN /\ Throw("Nested parentheses not supported")
            /\ UNCHANGED << insideLoop, pos, idx, copy >>
       ELSE /\ insideLoop' = TRUE
            /\ IF Len(steps) > 0
               THEN /\ EnterRun("run")
                    /\ UNCHANGED pos
               ELSE /\ pos' = pos + 1
                    /\ UNCHANGED << spc, idx, copy >>
            /\ UNCHANGED exc
    /\ UNCHANGED << steps, rounds, codeSize, measured >>

\* CloseLoop calling runSequence in place of runSequenceUntilStable at line
\* 286: the body of the loop is run once.
CloseLoopRunsOnce ==
    /\ IF ~insideLoop
       THEN /\ Throw("Unbalanced parenthesis")
            /\ UNCHANGED << insideLoop, pos, idx, copy >>
       ELSE /\ insideLoop' = FALSE
            /\ IF Len(steps) > 0
               THEN /\ EnterRun("run")
                    /\ UNCHANGED pos
               ELSE /\ pos' = pos + 1
                    /\ UNCHANGED << spc, idx, copy >>
            /\ UNCHANGED exc
    /\ UNCHANGED << steps, rounds, codeSize, measured >>

\* CloseLoop without the test of line 284: the stability loop is entered for
\* an empty list of steps as well.
CloseLoopAlwaysLoops ==
    /\ IF ~insideLoop
       THEN /\ Throw("Unbalanced parenthesis")
            /\ UNCHANGED << insideLoop, pos, rounds, codeSize, measured >>
       ELSE /\ insideLoop' = FALSE
            /\ EnterStable
            /\ UNCHANGED << pos, exc >>
    /\ UNCHANGED << steps, idx, copy >>

\* Lines 280-290, ')': the steps collected so far are run until stable.
CloseLoop ==
    /\ IF ~insideLoop
       THEN /\ Throw("Unbalanced parenthesis")
            /\ UNCHANGED << insideLoop, pos, rounds, codeSize, measured >>
       ELSE /\ insideLoop' = FALSE
            /\ IF Len(steps) > 0
               THEN /\ EnterStable
                    /\ UNCHANGED pos
               ELSE /\ pos' = pos + 1
                    /\ UNCHANGED << spc, rounds, codeSize, measured >>
            /\ UNCHANGED exc
    /\ UNCHANGED << steps, idx, copy >>

\* InvalidAbbreviation without the assertThrow: the character is skipped.
InvalidAbbreviationSkipped == SkipSpace

\* Lines 291-292: any other character.
InvalidAbbreviation ==
    /\ Throw("Invalid optimisation step abbreviation")
    /\ UNCHANGED << pos, insideLoop, steps, idx, copy, rounds, codeSize, measured >>

\* One iteration of the for loop over the characters (lines 260-293).
ScanCharacter ==
    /\ spc = "scan"
    /\ pos <= Len(text)
    /\ LET abbreviation == text[pos]
       IN  IF ~lookupTableAssertion
           THEN /\ exc' = YulAssertion("")
                /\ spc' = "thrown"
                /\ UNCHANGED << pos, insideLoop, steps, idx, copy, rounds, codeSize, measured >>
           ELSE IF abbreviation \in knownAbbreviations
           THEN PushStep(abbreviation)
           ELSE IF abbreviation = " " \/ abbreviation = "\n"
           THEN SkipSpace
           ELSE IF abbreviation = "("
           THEN OpenLoop
           ELSE IF abbreviation = ")"
           THEN CloseLoop
           ELSE InvalidAbbreviation
    /\ UNCHANGED << m_context, opc, ast, m_debug, text, maxRounds, log, elog, runVars >>

\* ScanEnd without the assertThrow of line 295.
ScanEndUnchecked ==
    /\ spc = "scan"
    /\ pos > Len(text)
    /\ IF Len(steps) > 0
       THEN EnterRun("tailrun")
       ELSE /\ spc' = "ret"
            /\ UNCHANGED << idx, copy >>
    /\ UNCHANGED << m_context, opc, ast, m_debug, text, pos, insideLoop, steps, rounds,
                    codeSize, maxRounds, exc, log, elog, measured, runVars >>

\* The end of the string (lines 295-297): the steps left are run once.
ScanEnd ==
    /\ spc = "scan"
    /\ pos > Len(text)
    /\ IF insideLoop
       THEN /\ Throw("Unbalanced parenthesis")
            /\ UNCHANGED << idx, copy >>
       ELSE /\ IF Len(steps) > 0
               THEN EnterRun("tailrun")
               ELSE /\ spc' = "ret"
                    /\ UNCHANGED << idx, copy >>
            /\ UNCHANGED exc
    /\ UNCHANGED << m_context, opc, ast, m_debug, text, pos, insideLoop, steps, rounds,
                    codeSize, maxRounds, log, elog, measured, runVars >>

\* Entry of runSequence(string): bool insideLoop = false; vector<string> steps.
EnterSequence(schedule) ==
    /\ text' = schedule
    /\ pos' = 1
    /\ insideLoop' = FALSE
    /\ steps' = <<>>
    /\ spc' = "scan"

\* The steps of the stability loop and of the plain runs.
NextRun == RunStep \/ RunReturn
NextStable == StableRound \/ StableBreak \/ StableExhausted
NextScan == ScanCharacter \/ ScanEnd

\* ----------------------------------- runSequence(string) called directly

\* The characters of the schedules that are enumerated: two abbreviations,
\* the two delimiters, the two ignored characters and a character that is
\* none of these.
Alphabet == { "f", "u", "(", ")", " ", "\n", "?" }

\* Longer schedules with a plain run before and after a loop.
SampleSchedules ==
    { << "f", "(", "u", ")", "f" >>,
      << "f", "u", "(", "u", "f", ")", "u" >>,
      << "(", "f", ")", "(", "u", ")" >>,
      << "f", "(", "u", ")", "?" >>,
      << "f", " ", "(", "u", "\n", ")", "(" >>,
      << "(", "f", ")", "(", "?" >>,
      << "f", "(", "u", "?" >>,
      << "u", "!" >> }

Schedules == SeqsUpTo(Alphabet, MaxLen) \cup SampleSchedules

InitSeq ==
    /\ opc = "runSequence"
    /\ ast \in Trees
    /\ m_context = "constructed"
    /\ m_debug \in DebugModes
    /\ text \in Schedules
    /\ pos = 1
    /\ insideLoop = FALSE
    /\ steps = <<>>
    /\ spc = "scan"
    /\ idx = 1
    /\ copy = NoCopy
    /\ rounds = 0
    /\ codeSize = InitialCodeSize
    /\ maxRounds = MaxRounds
    /\ exc = NoExc
    /\ log = <<>>
    /\ elog = <<>>
    /\ measured = <<>>
    /\ dialect = "none"
    /\ meter = FALSE
    /\ custom = nullopt
    /\ compressed = <<>>
    /\ phases = <<>>

NextSeq == NextScan \/ NextStable \/ NextRun

SpecSeq == InitSeq /\ [][NextSeq]_vars

\* ------------------------------- runSequenceUntilStable called directly

\* The step lists handed to the stability loop.
StepLists ==
    { << "BlockFlattener" >>, << "UnusedPruner", "BlockFlattener" >> }

InitStable ==
    /\ opc = "runSequenceUntilStable"
    /\ ast \in Trees
    /\ m_context \in Contexts
    /\ m_debug \in DebugModes
    /\ text = <<>>
    /\ pos = 1
    /\ insideLoop = FALSE
    /\ steps \in StepLists
    /\ spc = "loop"
    /\ idx = 1
    /\ copy = NoCopy
    /\ rounds = 0
    /\ codeSize = InitialCodeSize
    /\ maxRounds \in 0..MaxRounds
    /\ exc = NoExc
    /\ log = <<>>
    /\ elog = <<>>
    /\ measured = <<>>
    /\ dialect = "none"
    /\ meter = FALSE
    /\ custom = nullopt
    /\ compressed = <<>>
    /\ phases = <<>>

NextUntilStable == NextStable \/ NextRun

SpecStable == InitStable /\ [][NextUntilStable]_vars

\* ------------------------------------------------------ OptimiserSuite::run

\* DefaultSequence with '(' in place of ')' in the literal of line 118.
DefaultSequenceNested ==
    << "d", "h", "f", "o", "D", "g", "v", "u", "l", "f", "n", "T", "U", "t", "n", "I", "f" >>
    \o << "(" >>
    \o << "x", "a", "r", "r", "s", "c", "L", "M" >>
    \o << "c", "C", "T", "U", "t", "T", "O", "n", "t", "n", "f", "D", "I", "u", "l" >>
    \o << "L", "c", "u", "l" >>
    \o << "V", "c", "u", "l", " ", "j", "j" >>
    \o << "e", "u", "l" >>
    \o << "x", "a", "r", "u", "l", "r", "u", "l" >>
    \o << "x", "a", "r", "r", "c", "L" >>
    \o << "g", "v", "i", "f" >>
    \o << "C", "T", "U", "c", "a", "r", "r", "L", "s", "T", "O", "t", "f", "D", "n",
          "c", "a", "r", "r", "I", "u", "l", "c" >>
    \o << "(" >>
    \o << "j", "m", "u", "l", "j", "u", "l", "j", "u", "l", " ", "V", "c", "T", "O",
          "c", "u", "l", " ", "j", "m", "u", "l" >>

\* The schedule of the else branch of run (lines 104-119).
DefaultSequence ==
    << "d", "h", "f", "o", "D", "g", "v", "u", "l", "f", "n", "T", "U", "t", "n", "I", "f" >>
    \o << "(" >>
    \o << "x", "a", "r", "r", "s", "c", "L", "M" >>
    \o << "c", "C", "T", "U", "t", "T", "O", "n", "t", "n", "f", "D", "I", "u", "l" >>
    \o << "L", "c", "u", "l" >>
    \o << "V", "c", "u", "l", " ", "j", "j" >>
    \o << "e", "u", "l" >>
    \o << "x", "a", "r", "u", "l", "r", "u", "l" >>
    \o << "x", "a", "r", "r", "c", "L" >>
    \o << "g", "v", "i", "f" >>
    \o << "C", "T", "U", "c", "a", "r", "r", "L", "s", "T", "O", "t", "f", "D", "n",
          "c", "a", "r", "r", "I", "u", "l", "c" >>
    \o << ")" >>
    \o << "j", "m", "u", "l", "j", "u", "l", "j", "u", "l", " ", "V", "c", "T", "O",
          "c", "u", "l", " ", "j", "m", "u", "l" >>

\* size_t stackCompressorMaxIterations = 16 (line 124)
stackCompressorMaxIterations == 16

\* The statements of run that call runSequence(string), by the name the model
\* gives them: lines 99, 100, 103, 125 and 135.
SequenceStatements == { "bootstrap", "custom", "default", "cleanup1", "cleanup2" }

\* The string each of them hands to runSequence.
SequenceOf(statement) ==
    CASE statement = "bootstrap" -> << "f", "g", "o" >>
      [] statement = "custom"    -> custom.value
      [] statement = "default"   -> DefaultSequence
      [] statement = "cleanup1"  -> << "g" >>
      [] statement = "cleanup2"  -> << "f", "D", "n", "T", "O", "c", " ", "g" >>

\* FirstSequence with an empty custom sequence treated like none:
\* has_value() && !value().empty() in place of has_value().
FirstSequenceEmptyAsAbsent ==
    IF custom.has_value /\ custom.value # <<>> THEN "bootstrap" ELSE "default"

\* The branch on _customOptimisationSequence.has_value() (line 95).
FirstSequence == IF custom.has_value THEN "bootstrap" ELSE "default"

\* The statement that follows a call of runSequence in run.
AfterSequence(statement) ==
    CASE statement = "bootstrap" -> "custom"
      [] statement = "custom"    -> "cleanup1"
      [] statement = "default"   -> "cleanup1"
      [] statement = "cleanup1"  -> "compress"
      [] statement = "cleanup2"  -> "finish"

\* Lines 83-93: the Disambiguator rewrites the tree, the suite is constructed
\* with Debug::None.
Disambiguate ==
    /\ opc = "disambiguate"
    /\ \E t \in Trees : ast' = t
    /\ phases' = Append(phases, "Disambiguator")
    /\ opc' = FirstSequence
    /\ UNCHANGED << m_context, m_debug, text, pos, insideLoop, steps, spc, idx, copy, rounds,
                    codeSize, maxRounds, exc, log, elog, measured, dialect, meter, custom,
                    compressed >>

\* suite.runSequence(<string>, ast) is entered.
CallRunSequence ==
    /\ opc \in SequenceStatements
    /\ spc = "idle"
    /\ EnterSequence(SequenceOf(opc))
    /\ UNCHANGED << m_context, opc, ast, m_debug, idx, copy, rounds, codeSize, maxRounds, exc,
                    log, elog, measured, runVars >>

\* suite.runSequence(<string>, ast) returned: the next statement of run.
ReturnRunSequence ==
    /\ opc \in SequenceStatements
    /\ spc = "ret"
    /\ spc' = "idle"
    /\ phases' = Append(phases, opc)
    /\ opc' = AfterSequence(opc)
    /\ UNCHANGED << m_context, ast, m_debug, text, pos, insideLoop, steps, idx, copy, rounds,
                    codeSize, maxRounds, exc, log, elog, measured, dialect, meter, custom,
                    compressed >>

\* StackCompress with the return value deciding what runs next: the second
\* cleanup sequence is skipped when the compressor reports failure.
StackCompressResultUsed ==
    /\ opc = "compress"
    /\ \E t \in Trees : ast' = t
    /\ \E result \in BOOLEAN :
          /\ compressed' = << [returned |-> result,
                               maxIterations |-> stackCompressorMaxIterations] >>
          /\ opc' = IF result THEN "cleanup2" ELSE "finish"
    /\ phases' = Append(phases, "StackCompressor")
    /\ UNCHANGED << m_context, m_debug, text, pos, insideLoop, steps, spc, idx, copy, rounds,
                    codeSize, maxRounds, exc, log, elog, measured, dialect, meter,
                    custom >>

\* Lines 129-134: StackCompressor::run(_dialect, _object, _optimizeStackAllocation,
\* stackCompressorMaxIterations); its return value is dropped.
StackCompress ==
    /\ opc = "compress"
    /\ \E t \in Trees : ast' = t
    /\ \E result \in BOOLEAN :
          compressed' = << [returned |-> result,
                             maxIterations |-> stackCompressorMaxIterations] >>
    /\ phases' = Append(phases, "StackCompressor")
    /\ opc' = "cleanup2"
    /\ UNCHANGED << m_context, m_debug, text, pos, insideLoop, steps, spc, idx, copy, rounds,
                    codeSize, maxRounds, exc, log, elog, measured, dialect, meter, custom >>

\* Lines 146-147: the statements after the Wasm branch's if.
eraseLeadingEmptyBlock(statements) ==
    IF Len(statements) > 1 /\ Head(statements) = "EmptyBlock"
    THEN Tail(statements)
    ELSE statements

\* FinishEVM with the missing meter reported like a schedule error:
\* assertThrow(_meter, OptimizerException, "") in place of yulAssert.
FinishEVMAsScheduleError ==
    /\ opc = "finish"
    /\ dialect = "EVMDialect"
    /\ IF meter
       THEN /\ \E t \in Trees : ast' = t
            /\ phases' = Append(phases, "finish")
            /\ opc' = "clean"
            /\ UNCHANGED << spc, exc >>
       ELSE /\ exc' = OptimizerException("")
            /\ spc' = "thrown"
            /\ UNCHANGED << ast, phases, opc >>
    /\ UNCHANGED << m_context, m_debug, text, pos, insideLoop, steps, idx, copy, rounds,
                    codeSize, maxRounds, log, elog, measured, dialect, meter,
                    custom, compressed >>

\* Lines 137-141: the dialect is an EVMDialect.
FinishEVM ==
    /\ opc = "finish"
    /\ dialect = "EVMDialect"
    /\ IF meter
       THEN \* ConstantOptimiser{*dialect, *_meter}(ast)
            /\ \E t \in Trees : ast' = t
            /\ phases' = Append(phases, "finish")
            /\ opc' = "clean"
            /\ UNCHANGED << spc, exc >>
       ELSE \* yulAssert(_meter, "")
            /\ exc' = YulAssertion("")
            /\ spc' = "thrown"
            /\ UNCHANGED << ast, phases, opc >>
    /\ UNCHANGED << m_context, m_debug, text, pos, insideLoop, steps, idx, copy, rounds,
                    codeSize, maxRounds, log, elog, measured, dialect, meter, custom,
                    compressed >>

\* Lines 142-148: the dialect is a WasmDialect.  std::get<Block> is evaluated
\* only when there is more than one statement, and throws when the first one
\* is not a block.
FinishWasm ==
    /\ opc = "finish"
    /\ dialect = "WasmDialect"
    /\ IF Len(ast) > 1 /\ Head(ast) = "Other"
       THEN /\ exc' = [class |-> "std::bad_variant_access", what |-> ""]
            /\ spc' = "thrown"
            /\ UNCHANGED << ast, phases, opc >>
       ELSE /\ ast' = eraseLeadingEmptyBlock(ast)
            /\ phases' = Append(phases, "finish")
            /\ opc' = "clean"
            /\ UNCHANGED << spc, exc >>
    /\ UNCHANGED << m_context, m_debug, text, pos, insideLoop, steps, idx, copy, rounds,
                    codeSize, maxRounds, log, elog, measured, dialect, meter, custom,
                    compressed >>

\* FinishOther with the name cleaner called inside the dialect branches only:
\* for any other dialect run goes on with the analysis.
FinishOtherSkipsCleaner ==
    /\ opc = "finish"
    /\ dialect \notin { "EVMDialect", "WasmDialect" }
    /\ phases' = Append(phases, "finish")
    /\ opc' = "analyze"
    /\ UNCHANGED << m_context, ast, m_debug, text, pos, insideLoop, steps, spc, idx, copy,
                    rounds, codeSize, maxRounds, exc, log, elog, measured, dialect, meter,
                    custom, compressed >>

\* Neither cast succeeds: no branch of lines 137-148 is taken.
FinishOther ==
    /\ opc = "finish"
    /\ dialect \notin { "EVMDialect", "WasmDialect" }
    /\ phases' = Append(phases, "finish")
    /\ opc' = "clean"
    /\ UNCHANGED << m_context, ast, m_debug, text, pos, insideLoop, steps, spc, idx, copy,
                    rounds, codeSize, maxRounds, exc, log, elog, measured, dialect, meter,
                    custom, compressed >>

\* Line 149: VarNameCleaner::run(suite.m_context, ast)
VarNameClean ==
    /\ opc = "clean"
    /\ \E t \in Trees, c \in { m_context, "advanced" } :
          /\ ast' = t
          /\ m_context' = c
    /\ phases' = Append(phases, "VarNameCleaner")
    /\ opc' = "analyze"
    /\ UNCHANGED << m_debug, text, pos, insideLoop, steps, spc, idx, copy, rounds,
                    codeSize, maxRounds, exc, log, elog, measured, dialect, meter, custom,
                    compressed >>

\* Line 151: AsmAnalyzer::analyzeStrictAssertCorrect(_dialect, _object), which
\* asserts that the analysis succeeds.
Analyze ==
    /\ opc = "analyze"
    /\ \E correct \in BOOLEAN :
          IF correct
          THEN /\ phases' = Append(phases, "AsmAnalyzer")
               /\ opc' = "done"
               /\ UNCHANGED << spc, exc >>
          ELSE /\ exc' = YulAssertion("analysis")
               /\ spc' = "thrown"
               /\ UNCHANGED << phases, opc >>
    /\ UNCHANGED << m_context, ast, m_debug, text, pos, insideLoop, steps, idx, copy, rounds,
                    codeSize, maxRounds, log, elog, measured, dialect, meter, custom,
                    compressed >>

Dialects == { "EVMDialect", "WasmDialect", "Dialect" }

\* The values of _customOptimisationSequence that are explored.
CustomSequences ==
    { nullopt,
      optional(<<>>),
      optional(<< "u" >>),
      optional(<< "h", "(", "u", " ", "f", ")", "d" >>),
      optional(<< "(", ")" >>),
      optional(<< "u", "(", "f", "(" >>),
      optional(<< "u", ")" >>),
      optional(<< "(", "u" >>),
      optional(<< "u", "(", "f", ")", "?" >>) }

Init ==
    /\ opc = "disambiguate"
    /\ ast \in Trees
    /\ m_context = "constructed"
    /\ m_debug = "None"
    /\ text = <<>>
    /\ pos = 1
    /\ insideLoop = FALSE
    /\ steps = <<>>
    /\ spc = "idle"
    /\ idx = 1
    /\ copy = NoCopy
    /\ rounds = 0
    /\ codeSize = InitialCodeSize
    /\ maxRounds = MaxRounds
    /\ exc = NoExc
    /\ log = <<>>
    /\ elog = <<>>
    /\ measured = <<>>
    /\ dialect \in Dialects
    /\ meter \in BOOLEAN
    /\ custom \in CustomSequences
    /\ compressed = <<>>
    /\ phases = <<>>

NextOrchestrator ==
    \/ Disambiguate
    \/ CallRunSequence
    \/ ReturnRunSequence
    \/ StackCompress
    \/ FinishEVM
    \/ FinishWasm
    \/ FinishOther
    \/ VarNameClean
    \/ Analyze

Next == NextOrchestrator \/ NextScan \/ NextStable \/ NextRun

Spec == Init /\ [][Next]_vars

\* ---------------------------------------------------------------- claims

RECURSIVE Repeat(_, _)
\* The sequence s, n times.
Repeat(s, n) == IF n = 0 THEN <<>> ELSE s \o Repeat(s, n - 1)

RECURSIVE Flatten(_)
\* The steps invoked by the elements es, each repeated its number of rounds.
Flatten(es) ==
    IF es = <<>> THEN <<>>
    ELSE Repeat(Head(es).steps, Head(es).rounds) \o Flatten(Tail(es))

\* The element made of the steps cur, if there are any.
Element(isLoop, cur) ==
    IF cur = <<>> THEN <<>> ELSE << [loop |-> isLoop, steps |-> cur] >>

RECURSIVE ElementsFrom(_, _, _)
\* The elements of schedule t from character i on, cur being the steps read
\* since the last delimiter: a '(' ends a plain run, a ')' ends a loop body,
\* the end of the string ends a plain run.
ElementsFrom(t, i, cur) ==
    IF i > Len(t) THEN Element(FALSE, cur)
    ELSE IF t[i] \in knownAbbreviations
    THEN ElementsFrom(t, i + 1, Append(cur, stepAbbreviationToNameMap(t[i])))
    ELSE IF t[i] = "(" THEN Element(FALSE, cur) \o ElementsFrom(t, i + 1, <<>>)
    ELSE IF t[i] = ")" THEN Element(TRUE, cur) \o ElementsFrom(t, i + 1, <<>>)
    ELSE ElementsFrom(t, i + 1, cur)

\* The elements of schedule t that hold at least one step, in textual order.
ElementsOf(t) == ElementsFrom(t, 1, <<>>)

\* The elements that were executed, without their numbers of rounds.
Shape(es) == [ i \in 1..Len(es) |-> [loop |-> es[i].loop, steps |-> es[i].steps] ]

IsPrefix(s, t) == Len(s) <= Len(t) /\ s = SubSeq(t, 1, Len(s))

\* The steps invoked so far by the element that is executing.
InProgress ==
    CASE spc \in { "run", "tailrun" } -> SubSeq(steps, 1, idx - 1)
      [] spc = "looprun" -> Repeat(steps, rounds) \o SubSeq(steps, 1, idx - 1)
      [] spc = "loop" -> Repeat(steps, rounds)
      [] OTHER -> <<>>

\* C1: the steps are invoked in the textual order of the elements.  At every
\* moment the steps invoked so far are those of the elements already executed
\* (a plain run once, a loop body a whole number of rounds within the budget,
\* left to right) followed by the steps of the element that is executing; the
\* elements executed are the leading elements of the schedule, and all of them
\* once an accepted schedule has returned.
C1_TextualOrder ==
    /\ log = Flatten(elog) \o InProgress
    /\ \A i \in 1..Len(elog) :
          IF elog[i].loop THEN elog[i].rounds <= maxRounds ELSE elog[i].rounds = 1
    /\ IsPrefix(Shape(elog), ElementsOf(text))
    /\ spc = "ret" => Shape(elog) = ElementsOf(text)

\* A schedule with a plain run, a loop of two steps that ran two rounds, and a
\* plain run has returned.
C1_Witness ==
    /\ spc = "ret"
    /\ text = << "f", "u", "(", "u", "f", ")", "u" >>
    /\ Len(elog) = 3
    /\ elog[2].loop /\ elog[2].rounds = 2
    /\ Len(log) = 7

RECURSIVE OpenAfter(_, _)
\* Whether a loop is open after the first i characters of t.
OpenAfter(t, i) ==
    IF i = 0 THEN FALSE
    ELSE IF t[i] = "(" THEN TRUE
    ELSE IF t[i] = ")" THEN FALSE
    ELSE OpenAfter(t, i - 1)

\* Character i of t is a '(' while a loop is open or a ')' while none is.
Misplaced(t, i) ==
    \/ t[i] = "(" /\ OpenAfter(t, i - 1)
    \/ t[i] = ")" /\ ~OpenAfter(t, i - 1)

\* t has a misplaced delimiter, or ends while a loop is open.
DelimiterError(t) ==
    \/ \E i \in 1..Len(t) : Misplaced(t, i)
    \/ OpenAfter(t, Len(t))

\* C2: a schedule with a '(' inside a loop, a ')' outside a loop or an open
\* loop at its end never returns normally; the call goes on until it throws,
\* and what it throws is an OptimizerException, never a YulAssertion.
C2_DelimiterErrors ==
    DelimiterError(text) =>
        /\ spc # "ret"
        /\ spc = "thrown" => exc.class = "OptimizerException"
        /\ spc # "thrown" => exc = NoExc /\ ENABLED NextSeq

\* The schedule "()(" has thrown "Unbalanced parenthesis".
C2_Witness ==
    /\ text = << "(", ")", "(" >>
    /\ spc = "thrown"
    /\ exc = OptimizerException("Unbalanced parenthesis")

\* The positions of t that hold neither an abbreviation, nor a space or a
\* newline, nor a delimiter.
InvalidCharacters(t) ==
    { i \in 1..Len(t) : t[i] \notin knownAbbreviations \cup { " ", "\n", "(", ")" } }

Least(S) == CHOOSE i \in S : \A j \in S : i <= j

\* C3 as stated: a schedule with an invalid character ends with the exception
\* "Invalid optimisation step abbreviation", wherever the character is.
C3_AlwaysInvalidAbbreviation ==
    (InvalidCharacters(text) # {} /\ spc \in { "ret", "thrown" }) =>
        /\ spc = "thrown"
        /\ exc = OptimizerException("Invalid optimisation step abbreviation")

\* C3, amended: a schedule with an invalid character never returns normally;
\* the call goes on until it throws an OptimizerException, and the exception
\* is "Invalid optimisation step abbreviation" exactly when no misplaced
\* delimiter stands before the first invalid character.
C3_InvalidAbbreviation ==
    InvalidCharacters(text) # {} =>
        LET first == Least(InvalidCharacters(text))
            earlier == \E i \in 1..(first - 1) : Misplaced(text, i)
        IN  /\ spc # "ret"
            /\ spc = "thrown" =>
                  /\ exc.class = "OptimizerException"
                  /\ exc.what = "Invalid optimisation step abbreviation" <=> ~earlier
                  /\ earlier \/ pos = first
            /\ spc # "thrown" => exc = NoExc /\ ENABLED NextSeq

\* An invalid character inside a loop, after a loop was executed, has thrown.
C3_Witness ==
    /\ text = << "(", "f", ")", "(", "?" >>
    /\ spc = "thrown"
    /\ exc = OptimizerException("Invalid optimisation step abbreviation")
    /\ insideLoop
    /\ log # <<>>

\* C4 as stated: the stability loop never runs the steps more than maxRounds
\* times, and when it stops before the budget is used it stops in the first
\* round whose metric equals the metric measured at the start of the round
\* before, without running the steps in that round.
C4_StopsAtFirstRepeat ==
    /\ rounds <= maxRounds
    /\ spc = "ret" =>
          /\ Len(log) = rounds * Len(steps)
          /\ \A r \in 2..rounds : measured[r] # measured[r - 1]
          /\ rounds < maxRounds =>
                /\ rounds >= 1
                /\ Len(measured) = rounds + 1
                /\ measured[rounds + 1] = measured[rounds]

\* C5 as stated: when the metric measured at the start of every round differs
\* from that of the round before, the loop returns normally after running the
\* steps exactly maxRounds times.
C5_SafetyValve ==
    (spc = "ret" /\ \A r \in 2..Len(measured) : measured[r] # measured[r - 1]) =>
        /\ rounds = maxRounds
        /\ Len(log) = maxRounds * Len(steps)
        /\ exc = NoExc

\* C6 as stated: with maxRounds > 0 the stability loop runs the steps at
\* least once, whatever the tree.
C6_AtLeastOneRound ==
    (spc = "ret" /\ maxRounds > 0) =>
        /\ rounds >= 1
        /\ Len(log) >= Len(steps)

\* C7 as stated: with a custom sequence the first three steps invoked are
\* FunctionHoister, FunctionGrouper and ForLoopInitRewriter, in this order,
\* and the custom sequence starts only after them.
C7_BootstrapSteps ==
    custom.has_value =>
        LET bootstrap == << "FunctionHoister", "FunctionGrouper", "ForLoopInitRewriter" >>
        IN  /\ \A i \in 1..Len(log) : i <= 3 => log[i] = bootstrap[i]
            /\ Len(log) < 3 => opc \in { "disambiguate", "bootstrap" }

\* The statements of a run that completes, in order.
ExpectedPhases ==
    << "Disambiguator" >>
    \o (IF custom.has_value THEN << "bootstrap", "custom" >> ELSE << "default" >>)
    \o << "cleanup1", "StackCompressor", "cleanup2", "finish", "VarNameCleaner",
          "AsmAnalyzer" >>

\* C8: the statements of run complete in the order of ExpectedPhases, each
\* once, and a run is done exactly when all of them completed, whatever
\* StackCompressor::run returned; no step is invoked before the Disambiguator
\* or outside a call of runSequence; the StackCompressor is called with a cap
\* of 16 iterations; the last step of the second cleanup sequence is
\* FunctionGrouper.
C8_PhaseOrder ==
    /\ IsPrefix(phases, ExpectedPhases)
    /\ opc = "done" <=> phases = ExpectedPhases
    /\ log # <<>> => phases # <<>> /\ phases[1] = "Disambiguator"
    /\ spc \notin { "idle", "ret", "thrown" } => opc \in SequenceStatements
    /\ compressed # <<>> =>
          /\ compressed[1].maxIterations = 16
          /\ \E i \in 1..Len(phases) : phases[i] = "StackCompressor"
    /\ (phases # <<>> /\ phases[Len(phases)] = "cleanup2") =>
          log[Len(log)] = "FunctionGrouper"

\* A run with the default sequence is done although the StackCompressor
\* returned false.
C8_Witness ==
    /\ opc = "done"
    /\ ~custom.has_value
    /\ compressed = << [returned |-> FALSE, maxIterations |-> 16] >>
    /\ phases[Len(phases)] = "AsmAnalyzer"

\* C9 as stated: a missing meter for the EVM dialect is reported as an
\* OptimizerException, like the errors of a schedule.
C9_MissingMeterIsScheduleError ==
    (dialect = "EVMDialect" /\ ~meter /\ opc = "finish" /\ spc = "thrown") =>
        exc.class = "OptimizerException"

\* C9, amended: a missing meter for the EVM dialect stops the run at the
\* finishing step with the exception of yulAssert, which is not the
\* OptimizerException that every error of a schedule is reported with.
C9_ErrorClasses ==
    /\ (spc = "thrown" /\ opc \in SequenceStatements) =>
          exc.class = "OptimizerException"
    /\ (dialect = "EVMDialect" /\ ~meter) =>
          /\ opc \notin { "clean", "analyze", "done" }
          /\ (opc = "finish" /\ spc = "thrown") =>
                /\ exc = YulAssertion("")
                /\ exc.class # "OptimizerException"
          /\ (opc = "finish" /\ spc # "thrown") => ENABLED FinishEVM

\* The run of an EVM dialect without a meter has thrown at the finishing step.
C9_Witness ==
    /\ dialect = "EVMDialect"
    /\ ~meter
    /\ opc = "finish"
    /\ spc = "thrown"
    /\ exc.class = "YulAssertion"

\* C10 as stated: the finishing step of the Wasm dialect drops the first
\* top-level statement whenever it is an empty block, and leaves the
\* statements unchanged otherwise.
C10_WasmDropsEmptyBlock ==
    [][ (opc = "finish" /\ dialect = "WasmDialect" /\ opc' = "clean") =>
            IF ast # <<>> /\ Head(ast) = "EmptyBlock"
            THEN ast' = Tail(ast)
            ELSE ast' = ast ]_vars

\* The characters of the schedule syntax that are not abbreviations.
SyntaxCharacters == { " ", "\n", "(", ")" }

\* The names and the abbreviations that occur in the abbreviation table.
TableNames == { entry[1] : entry \in stepNameToAbbreviationMap }
TableAbbreviations == { entry[2] : entry \in stepNameToAbbreviationMap }

\* The table is a bijection between the registered names and the
\* abbreviations, and stepAbbreviationToNameMap inverts it.
TableIsBijection ==
    /\ Cardinality(stepNameToAbbreviationMap) = Cardinality(allSteps)
    /\ TableNames = allSteps
    /\ Cardinality(TableAbbreviations) = Cardinality(allSteps)
    /\ \A entry \in stepNameToAbbreviationMap :
          stepAbbreviationToNameMap(entry[2]) = entry[1]
    /\ knownAbbreviations = TableAbbreviations

\* C11: the abbreviation table and the registry of steps have the same
\* size, the table pairs every registered name with one abbreviation and every
\* abbreviation with one registered name, the two lookups are inverse to each
\* other, and no abbreviation is a space, a newline, '(' or ')'.  Hence the
\* interpreter resolves every abbreviation it reads to a registered step, the
\* lookup never fails, and the steps collected are exactly the abbreviations
\* read since the last delimiter: a syntax character never becomes a step.
C11_RegistryConsistent ==
    /\ TableIsBijection
    /\ knownAbbreviations \cap SyntaxCharacters = {}
    /\ \A i \in 1..Len(steps) : steps[i] \in allSteps
    /\ \A i \in 1..Len(log) : log[i] \in allSteps
    /\ exc.class \notin { "YulAssertion", "std::out_of_range" }
    /\ spc = "scan" =>
          Len(steps) = Cardinality({ i \in 1..(pos - 1) :
                                       /\ text[i] \in knownAbbreviations
                                       /\ \A j \in i..(pos - 1) :
                                             text[j] \notin { "(", ")" } })

\* A schedule whose abbreviations are separated by both ignored characters
\* returned, and the two steps they name were invoked.
C11_Witness ==
    /\ text = << "f", " ", "u" >>
    /\ spc = "ret"
    /\ log = << "BlockFlattener", "UnusedPruner" >>

\* How often x occurs in the sequence s, and where.
Positions(s, x) == { i \in 1..Len(s) : s[i] = x }
Count(s, x) == Cardinality(Positions(s, x))

\* The state part of C12.
C12_NameCleanerState ==
    /\ "VarNameCleaner" \notin allSteps
    /\ "VarNameCleaner" \notin TableNames
    /\ Count(log, "VarNameCleaner") = 0
    /\ Count(phases, "VarNameCleaner") <= 1
    /\ Count(phases, "VarNameCleaner") = 1 <=> opc \in { "analyze", "done" }
    /\ \A k \in Positions(phases, "VarNameCleaner") :
          /\ k > 1
          /\ phases[k - 1] = "finish"
          /\ Positions(phases, "cleanup2") # {}
          /\ \A j \in (k + 1)..Len(phases) : phases[j] = "AsmAnalyzer"
          /\ spc \in { "idle", "thrown" }
    /\ opc = "done" =>
          /\ phases[Len(phases)] = "AsmAnalyzer"
          /\ phases[Len(phases) - 1] = "VarNameCleaner"

\* C12: VarNameCleaner is not in the registry and has no abbreviation, so
\* the interpreter never invokes it, whatever the schedule.  The orchestrator
\* invokes it directly, once in every run that completes: after the last
\* sequence and the finishing step of the dialect, and before the analysis.
\* Once it has run no step is invoked through the interpreter any more.
C12_NameCleanerOnlyDirect ==
    /\ []C12_NameCleanerState
    /\ [][Count(phases, "VarNameCleaner") = 1 => log' = log]_vars

\* A run with a custom sequence completed: steps were invoked through the
\* interpreter, and the name cleaner ran between the finishing step and the
\* analysis.
C12_Witness ==
    /\ opc = "done"
    /\ custom = optional(<< "u" >>)
    /\ Len(log) > 0
    /\ Count(phases, "VarNameCleaner") = 1

\* A schedule without any abbreviation and without a delimiter error: spaces,
\* newlines and empty loops only, the empty schedule among them.
Vacuous(t) ==
    /\ \A i \in 1..Len(t) : t[i] \in SyntaxCharacters
    /\ ~DelimiterError(t)

\* The state part of C13.
C13_VacuousState ==
    Vacuous(text) =>
        /\ log = <<>>
        /\ elog = <<>>
        /\ measured = <<>>
        /\ steps = <<>>
        /\ exc = NoExc
        /\ spc \in { "scan", "ret" }
        /\ spc = "scan" => ENABLED NextSeq

\* C13: a schedule that holds no abbreviation and is well formed (the empty
\* schedule, spaces, newlines, empty loops) invokes no step, never enters
\* runSequence(vector) or the stability loop, throws nothing and returns; no
\* step of the call changes the tree or the context.
C13_VacuousScheduleIsNoOp ==
    /\ []C13_VacuousState
    /\ [][Vacuous(text) => (ast' = ast /\ m_context' = m_context)]_vars

\* The schedule " ()" has returned.
C13_Witness ==
    /\ text = << " ", "(", ")" >>
    /\ spc = "ret"
    /\ pos = 4

\* C14 as stated: when the metric measured at the start of a round is not
\* smaller than the one measured at the start of the round before, the steps
\* are not run again.
C14_StopsWhenNotSmaller ==
    LET n == Len(measured)
    IN  (n >= 2 /\ measured[n] >= measured[n - 1]) => spc # "looprun"

\* C14, amended: the stability loop stops as soon as the metric repeats.  When
\* the metric measured at the start of a round equals the one measured at the
\* start of the round before, the steps are not run again and the loop
\* returns; when it differs, smaller or larger, and rounds are left, the steps
\* are run once more.
C14_StopsWhenEqual ==
    LET n == Len(measured)
    IN  /\ \A r \in 2..(n - 1) : measured[r] # measured[r - 1]
        /\ (n >= 2 /\ measured[n] = measured[n - 1]) =>
              /\ spc = "ret"
              /\ rounds = n - 1
              /\ Len(log) = (n - 1) * Len(steps)
        /\ (n >= 2 /\ measured[n] # measured[n - 1]) =>
              /\ spc \in { "looprun", "loop", "ret" }
              /\ spc = "looprun" => rounds = n - 1 /\ Len(log) >= (n - 1) * Len(steps)
              /\ spc # "looprun" => rounds = n /\ Len(log) = n * Len(steps)
        /\ (spc = "loop" /\ rounds >= 1 /\ rounds < maxRounds) =>
              IF codeSizeIncludingFunctions(ast) = codeSize
              THEN ENABLED StableBreak /\ ~ENABLED StableRound
              ELSE ENABLED StableRound /\ ~ENABLED StableBreak

\* The second round started although the metric had grown.
C14_Witness ==
    /\ spc = "looprun"
    /\ Len(measured) = 2
    /\ measured[2] > measured[1]

\* The schedule t without its spaces and newlines.
Strip(t) == SelectSeq(t, LAMBDA c : c \notin { " ", "\n" })

\* The positions of t at which the scan cannot go on.
Offences(t) == InvalidCharacters(t) \cup { i \in 1..Len(t) : Misplaced(t, i) }

\* Where the scan of t fails: at its first offending character, or behind its
\* last character when it ends inside a loop; 0 when t is well formed.
FirstOffence(t) ==
    IF Offences(t) # {} THEN Least(Offences(t))
    ELSE IF OpenAfter(t, Len(t)) THEN Len(t) + 1
    ELSE 0

\* What the exception says for the character the scan of t fails at.
ExpectedWhat(t) ==
    LET k == FirstOffence(t)
    IN  IF k = 0 THEN ""
        ELSE IF k > Len(t) THEN "Unbalanced parenthesis"
        ELSE IF t[k] = "(" THEN "Nested parentheses not supported"
        ELSE IF t[k] = ")" THEN "Unbalanced parenthesis"
        ELSE "Invalid optimisation step abbreviation"

RECURSIVE ClosedFrom(_, _, _, _)
\* The elements of t that a delimiter among the characters i..n has closed,
\* cur being the steps read since the last delimiter.
ClosedFrom(t, i, n, cur) ==
    IF i > n THEN <<>>
    ELSE IF t[i] \in knownAbbreviations
    THEN ClosedFrom(t, i + 1, n, Append(cur, stepAbbreviationToNameMap(t[i])))
    ELSE IF t[i] = "(" THEN Element(FALSE, cur) \o ClosedFrom(t, i + 1, n, <<>>)
    ELSE IF t[i] = ")" THEN Element(TRUE, cur) \o ClosedFrom(t, i + 1, n, <<>>)
    ELSE ClosedFrom(t, i + 1, n, cur)

\* The elements of t closed by a delimiter before character k.
ClosedBefore(t, k) == ClosedFrom(t, 1, k - 1, <<>>)

\* The elements that are executed for schedule t: all of them when t is well
\* formed, else those closed before the scan fails.
ExpectedElements(t) ==
    IF FirstOffence(t) = 0 THEN ElementsOf(t) ELSE ClosedBefore(t, FirstOffence(t))

\* C15: spaces and newlines are ignored.  Whether the call returns or
\* throws, which exception it throws, and the plain runs and loops it executes
\* with their steps, are those of the schedule with every space and newline
\* deleted; so two schedules that differ only in spaces and newlines are both
\* accepted or both rejected with the same exception, and execute the same
\* elements in the same order.
C15_WhitespaceIgnored ==
    LET stripped == Strip(text)
    IN  /\ spc = "ret" =>
              /\ FirstOffence(stripped) = 0
              /\ exc = NoExc
              /\ Shape(elog) = ElementsOf(stripped)
              /\ log = Flatten(elog)
        /\ spc = "thrown" =>
              /\ FirstOffence(stripped) # 0
              /\ exc = OptimizerException(ExpectedWhat(stripped))
              /\ Shape(elog) = ClosedBefore(stripped, FirstOffence(stripped))
              /\ log = Flatten(elog)
        /\ spc \notin { "ret", "thrown" } => ENABLED NextSeq

\* A schedule with a space and a newline between its characters was executed
\* up to its last character, which is rejected.
C15_Witness ==
    /\ text = << "f", " ", "(", "u", "\n", ")", "(" >>
    /\ spc = "thrown"
    /\ exc = OptimizerException("Unbalanced parenthesis")
    /\ Shape(elog) = << [loop |-> FALSE, steps |-> << "BlockFlattener" >>],
                        [loop |-> TRUE, steps |-> << "UnusedPruner" >>] >>

\* The steps named by the abbreviations among the characters from..to of t.
StepsOf(t, from, to) ==
    LET abbreviations == SelectSeq(SubSeq(t, from, to),
                                   LAMBDA c : c \in knownAbbreviations)
    IN  [ i \in 1..Len(abbreviations) |-> stepAbbreviationToNameMap(abbreviations[i]) ]

\* The three elements of a schedule t with a '(' at open and a ')' at close.
ThreeElements(t, open, close) ==
    << [loop |-> FALSE, steps |-> StepsOf(t, 1, open - 1)],
       [loop |-> TRUE,  steps |-> StepsOf(t, open + 1, close - 1)],
       [loop |-> FALSE, steps |-> StepsOf(t, close + 1, Len(t))] >>

\* Where the loop of the default schedule starts and ends, and its elements.
DefaultOpen == Least(Positions(DefaultSequence, "("))
DefaultClose == Least(Positions(DefaultSequence, ")"))
DefaultElements == ThreeElements(DefaultSequence, DefaultOpen, DefaultClose)

\* The default schedule is accepted by the scan and is a plain run, a loop
\* and a plain run.
DefaultIsWellFormed ==
    /\ \A i \in 1..Len(DefaultSequence) :
          DefaultSequence[i] \in knownAbbreviations \cup { " ", "(", ")" }
    /\ FirstOffence(DefaultSequence) = 0
    /\ Count(DefaultSequence, "(") = 1
    /\ Count(DefaultSequence, ")") = 1
    /\ DefaultOpen < DefaultClose
    /\ \A i \in 1..3 : DefaultElements[i].steps # <<>>

\* C16: the default schedule is well formed and has three elements.  Each
\* of its characters is an abbreviation of the table, a space or a delimiter;
\* it has one '(' and, behind it, one ')'; steps stand before, between and
\* behind them: a plain run, one loop and a plain run.  A run without a custom
\* sequence hands it to the interpreter, which never throws on it and has
\* executed exactly these three elements, in this order, when it returns.
C16_DefaultScheduleWellFormed ==
    /\ DefaultIsWellFormed
    /\ opc = "default" => spc # "thrown" /\ exc = NoExc /\ ~custom.has_value
    /\ (~custom.has_value /\ opc = "cleanup1" /\ spc = "idle") =>
          /\ phases = << "Disambiguator", "default" >>
          /\ Shape(elog) = DefaultElements
          /\ log = Flatten(elog)

\* The default schedule has returned; its loop took two rounds.
C16_Witness ==
    /\ ~custom.has_value
    /\ opc = "cleanup1"
    /\ spc = "idle"
    /\ Len(elog) = 3
    /\ elog[2].loop
    /\ elog[2].rounds = 2

\* The character the scan of t fails at; none when it fails behind the last.
OffendingCharacter(t) ==
    LET k == FirstOffence(t)
    IN  IF k \in 1..Len(t) THEN << t[k] >> ELSE <<>>

\* C17 as stated: the exception names the offending character or its
\* position, so it tells apart schedules that fail at different characters
\* and positions.  Every schedule that ends with the exception thrown here
\* fails at the same position or at the same character as this one.
C17_ErrorNamesOffence ==
    spc = "thrown" =>
        \A t \in Schedules :
           (FirstOffence(t) # 0 /\ OptimizerException(ExpectedWhat(t)) = exc) =>
               \/ FirstOffence(t) = pos
               \/ OffendingCharacter(t) = OffendingCharacter(text)

\* The state part of C18.
C18_TraceState ==
    /\ m_debug # "PrintChanges" => copy = NoCopy
    /\ (spc \in RunStates /\ idx <= Len(steps)) =>
          \A t \in Trees, c \in { m_context, "advanced" } :
             ENABLED (RunStep /\ ast' = t /\ m_context' = c)
    /\ log = Flatten(elog) \o InProgress
    /\ IsPrefix(Shape(elog), ExpectedElements(text))
    /\ spc = "ret" => Shape(elog) = ExpectedElements(text)

\* C18: the trace mode has no effect on the result.  In each of the three
\* modes the elements executed are those of the schedule and their steps are
\* invoked in the same order; whatever tree and context a step can leave, it
\* can leave in every mode, so the snapshot never constrains or replaces the
\* tree; the tree and the context change only where a step is invoked; a
\* snapshot exists only for PrintChanges, and the mode never changes.
C18_TraceHasNoEffect ==
    /\ []C18_TraceState
    /\ [][/\ m_debug' = m_debug
          /\ (ast' # ast \/ m_context' # m_context \/ log' # log) =>
                /\ spc \in RunStates
                /\ idx <= Len(steps)
                /\ log' = Append(log, steps[idx])
          /\ copy' # copy => m_debug = "PrintChanges"]_vars

\* With PrintChanges a step changed the tree, so that the tree differs from
\* the snapshot taken at the entry of the run, and the snapshot was refreshed.
C18_Witness ==
    /\ m_debug = "PrintChanges"
    /\ spc = "tailrun"
    /\ text = << "f", "u" >>
    /\ idx = 2
    /\ log = << "BlockFlattener" >>
    /\ ast = << "Block", "Other" >>
    /\ copy = ast

\* The position behind the last delimiter among the first n characters of t.
AfterLastDelimiter(t, n) ==
    LET delimiters == { i \in 1..n : t[i] \in { "(", ")" } }
    IN  IF delimiters = {} THEN 1
        ELSE 1 + (CHOOSE i \in delimiters : \A j \in delimiters : j <= i)

\* The state part of C19.
C19_ThrownState ==
    spc = "thrown" =>
        /\ exc.class = "OptimizerException"
        /\ pos = FirstOffence(text)
        /\ Shape(elog) = ClosedBefore(text, pos)
        /\ \A i \in 1..Len(elog) :
              IF elog[i].loop THEN elog[i].rounds <= maxRounds ELSE elog[i].rounds = 1
        /\ log = Flatten(elog)
        /\ steps = StepsOf(text, AfterLastDelimiter(text, pos - 1), pos - 1)

\* C19: the scan and the execution are interleaved.  When runSequence
\* throws at a character, the steps invoked are exactly those of the elements
\* that a '(' or a ')' before this character closed, a plain run once and a
\* loop body as often as the stability loop ran it; the steps collected since
\* the last delimiter are still in the list and were never invoked.  When no
\* element holding a step is closed before the offending character, no step
\* of the call changes the tree or the context.
C19_ExecutedBeforeError ==
    /\ []C19_ThrownState
    /\ [][(FirstOffence(text) # 0 /\ ClosedBefore(text, FirstOffence(text)) = <<>>) =>
              (ast' = ast /\ m_context' = m_context /\ log' = log)]_vars

\* "f(u?" has thrown at its last character: the plain run closed by '(' was
\* executed, the step collected inside the loop was not.
C19_Witness ==
    /\ text = << "f", "(", "u", "?" >>
    /\ spc = "thrown"
    /\ pos = 4
    /\ log = << "BlockFlattener" >>
    /\ steps = << "UnusedPruner" >>

\* The steps a schedule without delimiters names.
AllStepsOf(t) == StepsOf(t, 1, Len(t))

\* The steps invoked by a run whose custom sequence names no step: those of
\* the bootstrap sequence and of the two cleanup sequences.
FixedSteps ==
    AllStepsOf(SequenceOf("bootstrap")) \o AllStepsOf(SequenceOf("cleanup1"))
        \o AllStepsOf(SequenceOf("cleanup2"))

\* C20: a custom sequence that is present but empty is not treated as
\* absent.  The default schedule is run exactly when no custom sequence is
\* supplied, and then the bootstrap sequence is not run; when one is supplied,
\* even an empty one, the bootstrap sequence and the custom sequence are run
\* and the default schedule never is.  With an empty custom sequence the steps
\* invoked through the interpreter are those of the bootstrap sequence and of
\* the two cleanup sequences, and no other.
C20_EmptyCustomIsPresent ==
    /\ opc = "default" => ~custom.has_value
    /\ opc \in { "bootstrap", "custom" } => custom.has_value
    /\ Count(phases, "default") > 0 =>
          ~custom.has_value /\ Count(phases, "bootstrap") = 0
    /\ Count(phases, "bootstrap") > 0 =>
          custom.has_value /\ Count(phases, "default") = 0
    /\ opc \notin { "disambiguate", "bootstrap", "custom", "default" } =>
          IF custom.has_value
          THEN SubSeq(phases, 1, 3) = << "Disambiguator", "bootstrap", "custom" >>
          ELSE SubSeq(phases, 1, 2) = << "Disambiguator", "default" >>
    /\ custom = optional(<<>>) =>
          /\ IsPrefix(log, FixedSteps)
          /\ opc = "custom" => spc # "thrown"
          /\ opc = "done" => log = FixedSteps

\* A run with the empty custom sequence completed: the bootstrap sequence
\* and the two cleanup sequences invoked their eleven steps.
C20_Witness ==
    /\ custom = optional(<<>>)
    /\ opc = "done"
    /\ Count(phases, "bootstrap") = 1
    /\ Len(log) = 11
====
